---- MODULE Spec2Model ----
(***************************************************************************)
(* Model of make.py: the BookGenerator, the MeaningnessEbook converter and *)
(* put_ebook_together.                                                     *)
(*                                                                         *)
(* Strings the code takes apart (img src values, paths) are sequences of   *)
(* tokens: a token is a scheme ("https://"), a separator (".", "/",        *)
(* "../") or a name without separators.  A parsed document is a function   *)
(* from Dewey paths (<<>> is the body element, <<1>> its first child, ...) *)
(* to elements [tag, params]; params is a record of the attributes the     *)
(* element carries.                                                        *)
(*                                                                         *)
(* Three specifications: Spec is a run of put_ebook_together over any      *)
(* index.html and scratch directory, SpecBook is a BookGenerator under any *)
(* sequence of client calls, SpecFluff is remove_fluff applied repeatedly  *)
(* to any small body.                                                      *)
(***************************************************************************)
EXTENDS Integers, Sequences, FiniteSets, TLC

\* ------------------------------------------------------------------ bounds
\* most element nodes below the body of a generated body tree
MaxNodes == 3
\* most applications of remove_fluff to one body
MaxApply == 2
\* most links in the TOC container of index.html
MaxToc == 2
\* most calls a client makes on one BookGenerator
MaxCalls == 4

\* ------------------------------------------------------------- token strings
\* str.startswith(tok) for a token that is a prefix unit of the string
StartsWith(s, tok) == Len(s) > 0 /\ s[1] = tok

\* str.replace(tok, ""): every occurrence goes
RemoveAll(s, tok) == SelectSeq(s, LAMBDA t : t # tok)

\* the part after the last occurrence of sep, the whole string without one
\* (str.rsplit(sep)[-1], and os.path.basename for sep = "/")
AfterLast(s, sep) ==
    LET idx == {i \in 1..Len(s) : s[i] = sep}
    IN  IF idx = {} THEN s
        ELSE LET m == CHOOSE i \in idx : \A j \in idx : j <= i
             IN  SubSeq(s, m + 1, Len(s))

\* the part before the last occurrence of sep (os.path.dirname)
BeforeLast(s, sep) ==
    LET idx == {i \in 1..Len(s) : s[i] = sep}
    IN  IF idx = {} THEN << >>
        ELSE LET m == CHOOSE i \in idx : \A j \in idx : j <= i
             IN  SubSeq(s, 1, m - 1)

\* os.path.join(dir, name) for a relative name
PathJoin(dir, name) == dir \o <<"/">> \o name

\* --------------------------------------------------------------- documents
IsPrefix(p, q) == Len(p) <= Len(q) /\ SubSeq(q, 1, Len(p)) = p

\* document (pre-)order of two different paths
PathLess(p, q) ==
    \/ (Len(p) < Len(q) /\ IsPrefix(p, q))
    \/ \E i \in 1..Len(p) :
          /\ i <= Len(q)
          /\ SubSeq(p, 1, i - 1) = SubSeq(q, 1, i - 1)
          /\ p[i] < q[i]

RECURSIVE InDocOrder(_)
InDocOrder(S) ==
    IF S = {} THEN << >>
    ELSE LET first == CHOOSE p \in S : \A q \in S \ {p} : PathLess(p, q)
         IN  <<first>> \o InDocOrder(S \ {first})

HasParam(el, key) == key \in DOMAIN el.params

\* the element left by el.replaceWith(dhtmlparser.parseString(""))
EmptyElement == [tag |-> "", params |-> << >>]

\* el.isAlmostEqual(tag_name, params, fn): a selector is a tag name plus at
\* most one test of one attribute; "eq" is dhtmlparser's containsParamSubset
\* (the whole attribute value is compared), "contains" is the substring
\* predicate of the block-meaningness-navigation rule, "any" is no test.
\* An element without a tag name (text, the empty element) matches nothing.
Match(el, sel) ==
    /\ el.tag # ""
    /\ el.tag = sel.tag
    /\ CASE sel.mode = "any" -> TRUE
         [] sel.mode = "eq" -> HasParam(el, sel.key) /\ el.params[sel.key] = sel.val
         [] sel.mode = "contains" ->
                /\ HasParam(el, sel.key)
                /\ \E i \in 1..Len(el.params[sel.key]) : el.params[sel.key][i] = sel.val[1]

\* el.find(...) called on the element at root: root itself and its
\* descendants, in document order
FindUnder(dom, root, sel) ==
    InDocOrder({p \in DOMAIN dom : IsPrefix(root, p) /\ Match(dom[p], sel)})

Find(dom, sel) == FindUnder(dom, << >>, sel)

TagSel(tag) == [tag |-> tag, mode |-> "any", key |-> "", val |-> << >>]
AttrSel(tag, key, val) == [tag |-> tag, mode |-> "eq", key |-> key, val |-> val]
SubstrSel(tag, key, tok) == [tag |-> tag, mode |-> "contains", key |-> key, val |-> <<tok>>]

\* el.replaceWith(empty) on the element at p: it becomes the empty element and
\* loses its children.  An element found earlier that an enclosing replacement
\* already cut out of the body is no longer part of it.
ReplaceWith(dom, p) ==
    IF p \notin DOMAIN dom THEN dom
    ELSE [q \in {r \in DOMAIN dom : r = p \/ ~IsPrefix(p, r)} |->
             IF q = p THEN EmptyElement ELSE dom[q]]

\* a bug: only the first element a selector finds is replaced
replace_first_only(dom, found) ==
    IF found = << >> THEN dom ELSE ReplaceWith(dom, Head(found))

\* the local function replace(selector) of remove_fluff
RECURSIVE replace(_, _)
replace(dom, found) ==
    IF found = << >> THEN dom
    ELSE replace(ReplaceWith(dom, Head(found)), Tail(found))

\* the selectors of remove_fluff, in the order of its eleven replace() calls
FluffSelectors == <<
    AttrSel("div", "class", <<"nocontent">>),
    AttrSel("div", "class", <<"tertiary-content-wrapper">>),
    AttrSel("div", "class", <<"more-link">>),
    AttrSel("div", "class", <<"view-content">>),
    AttrSel("div", "class", <<"block-content", " ", "content">>),
    AttrSel("div", "class", <<"region", " ", "region-content-aside">>),
    AttrSel("div", "role", <<"search">>),
    SubstrSel("div", "class", "block-meaningness-navigation"),
    TagSel("header"),
    AttrSel("div", "id", <<"tertiary-content-wrapper">>),
    AttrSel("nav", "class", <<"clearfix">>) >>

RECURSIVE ApplySelectors(_, _)
ApplySelectors(dom, sels) ==
    IF sels = << >> THEN dom
    ELSE ApplySelectors(replace(dom, Find(dom, Head(sels))), Tail(sels))

\* remove_fluff mutates the body it is given ...
remove_fluff(body) == ApplySelectors(body, FluffSelectors)

\* ... and then returns body.find("div", {"class": "node-content"})[0], an
\* IndexError when the cleaned body has no such div
NodeContentSel == AttrSel("div", "class", <<"node-content">>)
remove_fluff_raises(body) == Find(remove_fluff(body), NodeContentSel) = << >>

\* ------------------------------------------------- bodies for remove_fluff
El(tag, params) == [tag |-> tag, params |-> params]
BodyElement == El("body", << >>)

\* elements a body is built from: some that a selector matches, some that
\* come close (a class that is only part of a selector's value, the right
\* class on another tag), and content
FluffElements == {
    El("div", [class |-> <<"nocontent">>]),
    El("div", [class |-> <<"tertiary-content-wrapper">>]),
    El("div", [class |-> <<"more-link">>]),
    El("div", [class |-> <<"view-content">>]),
    El("div", [class |-> <<"block-content", " ", "content">>]),
    El("div", [class |-> <<"region", " ", "region-content-aside">>]),
    El("div", [role |-> <<"search">>]),
    El("div", [class |-> <<"block", " ", "block-meaningness-navigation">>]),
    El("header", << >>),
    El("div", [id |-> <<"tertiary-content-wrapper">>]),
    El("nav", [class |-> <<"clearfix">>]),
    El("div", [class |-> <<"block-content">>]),
    El("nav", << >>),
    El("div", [class |-> <<"node-content">>]),
    El("img", [src |-> <<"img", "/", "x", ".", "png">>]) }

\* the child a further element gets under parent in the path set S
NextChild(S, parent) ==
    parent \o <<Cardinality({p \in S : Len(p) = Len(parent) + 1 /\ IsPrefix(parent, p)}) + 1>>

\* the sets of paths of the trees with exactly n elements below the body
RECURSIVE Shapes(_)
Shapes(n) ==
    IF n = 0 THEN {{<< >>}}
    ELSE {S \cup {NextChild(S, parent)} : <<S, parent>> \in
             UNION {{<<T, q>> : q \in T} : T \in Shapes(n - 1)}}

BodyShapes == UNION {Shapes(n) : n \in 0..MaxNodes}

\* ----------------------------------------------------------- BookGenerator
\* The book is BookGenerator's state: items is self.book.items (ebooklib's
\* add_item appends, it never looks for an item of the same name), chapters
\* is self.chapters, toc and spine are self.book.toc and self.book.spine.
\* The toc section holds self.chapters itself, not a copy, so it is kept as
\* the section title and read through TocChapters; the spine is a new list.
NavRef == [kind |-> "nav"]

NewBook(title) ==
    [title |-> title, items |-> << >>, chapters |-> << >>, toc |-> << >>, spine |-> << >>]

Chapter(file_name, content) ==
    [kind |-> "chapter", file_name |-> file_name, content |-> content]

Image(file_name, content) ==
    [kind |-> "image", file_name |-> file_name, content |-> content]

\* a bug: the chapter is listed but never handed to the EPUB book
add_chapter_unregistered(book, chapter) ==
    [book EXCEPT !.chapters = Append(@, chapter)]

add_chapter(book, chapter) ==
    [book EXCEPT !.items = Append(@, chapter), !.chapters = Append(@, chapter)]

add_image(book, image) == [book EXCEPT !.items = Append(@, image)]

NavCss ==
    [kind |-> "style", file_name |-> <<"style", "/", "nav", ".", "css">>,
     content |-> <<"BODY {color: white;}">>]

_add_css(book) == [book EXCEPT !.items = Append(@, NavCss)]

EpubNcx == [kind |-> "ncx", file_name |-> <<"toc", ".", "ncx">>, content |-> << >>]
EpubNav == [kind |-> "nav", file_name |-> <<"nav", ".", "xhtml">>, content |-> << >>]

\* a bug: the spine is extended instead of being set, and nav comes last
_add_toc_extending(book) ==
    [book EXCEPT !.toc = <<[section |-> book.title]>>,
                 !.items = @ \o <<EpubNcx, EpubNav>>,
                 !.spine = @ \o book.chapters \o <<NavRef>>]

_add_toc(book) ==
    [book EXCEPT !.toc = <<[section |-> book.title]>>,
                 !.items = @ \o <<EpubNcx, EpubNav>>,
                 !.spine = <<NavRef>> \o book.chapters]

\* the chapters a toc section lists: the list self.chapters as it is now
TocChapters(book, i) == book.chapters

\* generate_ebook up to the call of epub.write_epub
generate_ebook(book) == _add_toc(_add_css(book))

\* what epub.write_epub puts into the file at path
Package(book) == [spine |-> book.spine, items |-> book.items]

\* ------------------------------------------------------- the files of a run
\* put_ebook_together(html_path): the PATH argument and the scratch directory
HtmlRoot == <<"root">>
TmpName == <<"tmp_images">>

Doc(pairs) ==
    [p \in {pairs[i][1] : i \in DOMAIN pairs} |->
        pairs[CHOOSE i \in DOMAIN pairs : pairs[i][1] = p][2]]

\* img src values
RemoteUrl == <<"https://", "host", ".", "org", "/", "fig", ".", "png">>
RemoteUrlNoSuffix == <<"http://", "host", ".", "org", "/", "fig">>
LocalSrc == <<"img", "/", "x", ".", "png">>
LocalSrcUp == <<"../", "img", "/", "y", ".", "png">>
MissingSrc == <<"img", "/", "gone", ".", "png">>
RemoteUrls == {RemoteUrl, RemoteUrlNoSuffix}

\* the image files that exist under the content root
LocalFiles == {PathJoin(HtmlRoot, LocalSrc), PathJoin(HtmlRoot, RemoveAll(LocalSrcUp, "../"))}

Img(src) == El("img", [src |-> src])
StyledImg(src) == El("img", [src |-> src, style |-> <<"width:50%">>])
NodeContent == El("div", [class |-> <<"node-content">>])

File(hasTitle, hasBody, body) ==
    [kind |-> "file", hasTitle |-> hasTitle, hasBody |-> hasBody, body |-> body]

\* the articles under the content root, by the href that names them
Hrefs == {<<"plain">>, <<"twice">>, <<"again">>, <<"nosuffix">>, <<"missing">>,
          <<"fluff">>, <<"nosrc">>, <<"notitle">>, <<"nobody">>, <<"bare">>,
          <<"sub">>, <<"gone">>}

ArticleAt(href) ==
    CASE href = <<"plain">> ->
            File(TRUE, TRUE, Doc(<< <<<< >>, BodyElement>>, <<<<1>>, NodeContent>>,
                <<<<1, 1>>, StyledImg(LocalSrc)>>, <<<<1, 2>>, Img(LocalSrcUp)>> >>))
      [] href = <<"twice">> ->
            File(TRUE, TRUE, Doc(<< <<<< >>, BodyElement>>, <<<<1>>, NodeContent>>,
                <<<<1, 1>>, Img(RemoteUrl)>>, <<<<1, 2>>, Img(RemoteUrl)>> >>))
      [] href = <<"again">> ->
            File(TRUE, TRUE, Doc(<< <<<< >>, BodyElement>>, <<<<1>>, NodeContent>>,
                <<<<1, 1>>, Img(RemoteUrl)>> >>))
      [] href = <<"nosuffix">> ->
            File(TRUE, TRUE, Doc(<< <<<< >>, BodyElement>>, <<<<1>>, NodeContent>>,
                <<<<1, 1>>, Img(RemoteUrlNoSuffix)>>, <<<<1, 2>>, Img(RemoteUrlNoSuffix)>> >>))
      [] href = <<"missing">> ->
            File(TRUE, TRUE, Doc(<< <<<< >>, BodyElement>>, <<<<1>>, NodeContent>>,
                <<<<1, 1>>, StyledImg(MissingSrc)>>, <<<<1, 2>>, StyledImg(LocalSrc)>> >>))
      [] href = <<"fluff">> ->
            File(TRUE, TRUE, Doc(<< <<<< >>, BodyElement>>, <<<<1>>, El("header", << >>)>>,
                <<<<1, 1>>, Img(RemoteUrl)>>, <<<<2>>, NodeContent>>,
                <<<<2, 1>>, Img(LocalSrc)>> >>))
      [] href = <<"nosrc">> ->
            File(TRUE, TRUE, Doc(<< <<<< >>, BodyElement>>, <<<<1>>, NodeContent>>,
                <<<<1, 1>>, Img(LocalSrc)>>,
                <<<<1, 2>>, El("img", [alt |-> <<"figure">>])>> >>))
      [] href = <<"notitle">> ->
            File(FALSE, TRUE, Doc(<< <<<< >>, BodyElement>>, <<<<1>>, NodeContent>> >>))
      [] href = <<"nobody">> ->
            File(TRUE, FALSE, Doc(<< <<<< >>, EmptyElement>> >>))
      [] href = <<"bare">> ->
            File(TRUE, TRUE, Doc(<< <<<< >>, BodyElement>>, <<<<1>>, Img(LocalSrc)>> >>))
      [] href = <<"sub">> -> [kind |-> "dir"]
      [] OTHER -> [kind |-> "absent"]

\* index.html with the given links in its TOC container.  "stray" puts a
\* link before the container and a second container after it, "nohref" a link
\* without href into it, "nocontainer" gives the list another class.
IndexDoc(kind, hrefs) ==
    LET n == Len(hrefs)
        links == {<<2, i>> : i \in 1..n}
        more == CASE kind = "stray" -> {<<3>>, <<3, 1>>}
                  [] kind = "nohref" -> {<<2, n + 1>>}
                  [] OTHER -> {}
    IN  [p \in {<< >>, <<1>>, <<2>>} \cup links \cup more |->
            CASE p = << >> -> BodyElement
              [] p = <<1>> ->
                    IF kind = "stray" THEN El("a", [href |-> <<"plain">>]) ELSE El("h1", << >>)
              [] p = <<2>> ->
                    El("ul", [class |-> IF kind = "nocontainer" THEN <<"toc">> ELSE <<"book-toc">>])
              [] p \in links -> El("a", [href |-> hrefs[p[2]]])
              [] p = <<3>> -> El("ul", [class |-> <<"book-toc">>])
              [] p = <<2, n + 1>> -> El("a", [name |-> <<"top">>])
              [] OTHER -> El("a", [href |-> <<"plain">>])]

IndexKinds == {"plain", "stray", "nohref", "nocontainer", "absent"}

RECURSIVE SeqsUpTo(_, _)
SeqsUpTo(S, n) ==
    IF n = 0 THEN {<< >>}
    ELSE LET shorter == SeqsUpTo(S, n - 1)
         IN  shorter \cup {Append(q, x) : q \in shorter, x \in S}

\* --------------------------------------------------------- MeaningnessEbook
\* the exceptions `except IOError` catches: IOError is OSError, which open()
\* raises (FileNotFoundError), and requests.RequestException derives from it
IsIOError(err) == err \in {"IOError", "FileNotFoundError", "RequestException"}

\* a bug: every link of the page is taken, not those of the TOC container
parse_toc_all_links(index) ==
    IF index = << >> THEN [err |-> "FileNotFoundError", entries |-> << >>]
    ELSE LET dom == index[1]
             links == Find(dom, TagSel("a"))
         IN  IF \E i \in DOMAIN links : ~HasParam(dom[links[i]], "href")
             THEN [err |-> "KeyError", entries |-> << >>]
             ELSE [err |-> "",
                   entries |-> [i \in DOMAIN links |->
                       <<dom[links[i]].params.href, dom[links[i]].params.href>>]]

\* parse_toc, consumed by list(): the (href, href) pairs of the links under
\* the first ul of class book-toc, or the error that ends it
parse_toc(index) ==
    IF index = << >> THEN [err |-> "FileNotFoundError", entries |-> << >>]
    ELSE LET dom == index[1]
             toc_doms == Find(dom, AttrSel("ul", "class", <<"book-toc">>))
         IN  IF toc_doms = << >> THEN [err |-> "IndexError", entries |-> << >>]
             ELSE LET links == FindUnder(dom, toc_doms[1], TagSel("a"))
                  IN  IF \E i \in DOMAIN links : ~HasParam(dom[links[i]], "href")
                      THEN [err |-> "KeyError", entries |-> << >>]
                      ELSE [err |-> "",
                            entries |-> [i \in DOMAIN links |->
                                <<dom[links[i]].params.href, dom[links[i]].params.href>>]]

\* hashlib.sha256(src.encode("utf-8")).hexdigest(): one token, a different
\* one for each URL
Sha256Hex(src) ==
    CASE src = RemoteUrl -> "digest-of-RemoteUrl"
      [] src = RemoteUrlNoSuffix -> "digest-of-RemoteUrlNoSuffix"
      [] OTHER -> "digest-of-another-string"

\* "{}.{}".format(digest, src.rsplit(".")[-1]) under tmp_path
CacheFileName(tmp_path, src) ==
    PathJoin(tmp_path, <<Sha256Hex(src), ".">> \o AfterLast(src, "."))

\* open(path, "wb") creates the file when its directory exists; the scratch
\* directory is the only directory there is below the working directory
CanCreate(path) == BeforeLast(path, "/") = TmpName

\* _inline_remote_image with the files `cache` in the scratch directory;
\* netOk says whether requests.get returns (it raises otherwise), fetched
\* whether it was called and returned the bytes
_inline_remote_image(tmp_path, src, cache, netOk) ==
    LET file_name == CacheFileName(tmp_path, src)
        epub_img == Image(file_name, << >>)
    IN  IF file_name \in cache
        THEN [err |-> "", image |-> epub_img, cache |-> cache, fetched |-> FALSE]
        ELSE IF ~netOk
        THEN [err |-> "RequestException", image |-> epub_img, cache |-> cache, fetched |-> FALSE]
        ELSE IF ~CanCreate(file_name)
        THEN [err |-> "FileNotFoundError", image |-> epub_img, cache |-> cache, fetched |-> TRUE]
        ELSE [err |-> "", image |-> epub_img, cache |-> cache \cup {file_name}, fetched |-> TRUE]

\* del img.params["style"]
WithoutStyle(params) == [k \in DOMAIN params \ {"style"} |-> params[k]]

\* a bug: the style attribute is deleted before the file is looked for
_inline_local_image_style_first(params, src) ==
    LET image_path == PathJoin(HtmlRoot, src)
    IN  IF image_path \notin LocalFiles
        THEN [err |-> "IOError", image |-> Image(AfterLast(src, "/"), << >>),
              params |-> WithoutStyle(params)]
        ELSE [err |-> "", image |-> Image(AfterLast(src, "/"), image_path),
              params |-> WithoutStyle(params)]

\* _inline_local_image: the image and the params the img element is left with
_inline_local_image(params, src) ==
    LET image_path == PathJoin(HtmlRoot, src)
    IN  IF image_path \notin LocalFiles
        THEN [err |-> "IOError", image |-> Image(AfterLast(src, "/"), << >>), params |-> params]
        ELSE [err |-> "", image |-> Image(AfterLast(src, "/"), image_path),
              params |-> WithoutStyle(params)]

\* a bug: no directory test, so that open() is what fails on a directory
convert_chapter_error_without_isdir(href) ==
    LET file == ArticleAt(href)
    IN  CASE file.kind = "dir" -> "IsADirectoryError"
          [] file.kind = "absent" -> "FileNotFoundError"
          [] ~file.hasTitle -> "IndexError"
          [] ~file.hasBody -> "IndexError"
          [] remove_fluff_raises(file.body) -> "IndexError"
          [] OTHER -> ""

\* the error convert_chapter raises before it comes to the images ("" if none)
convert_chapter_error(href) ==
    LET file == ArticleAt(href)
    IN  CASE file.kind = "dir" -> "ValueError"
          [] file.kind = "absent" -> "FileNotFoundError"
          [] ~file.hasTitle -> "IndexError"
          [] ~file.hasBody -> "IndexError"
          [] remove_fluff_raises(file.body) -> "IndexError"
          [] OTHER -> ""

IsRemote(src) == StartsWith(src, "http://") \/ StartsWith(src, "https://")

\* if src.startswith("../"): src = src.replace("../", "")
StrippedSrc(src) == IF StartsWith(src, "../") THEN RemoveAll(src, "../") ELSE src

\* ------------------------------------------------------------------- state
VARIABLES
    book,           \* the BookGenerator
    epubFile,       \* the output file: << >> while absent, else <<package>>
    writes,         \* how often the output file has been written
    lastCall,       \* the BookGenerator method a client called last
    calls,          \* how many BookGenerator methods a client has called (SpecBook)
    added,          \* the chapters handed to add_chapter so far, in call order
    pc,             \* where the run of put_ebook_together stands
    indexHtml,      \* index.html: << >> while absent, else <<document>>
    tocEntries,     \* the hrefs of the links in its TOC container, in order
    chapters_metadata,  \* self.chapters_metadata after parse_toc
    chapterIdx,     \* the entry of chapters_metadata the loop is at
    body,           \* the body of the chapter being converted
    imgs,           \* body.find("img"), the list _inline_images loops over
    imgIdx,         \* the img of that list the loop is at
    tmpDir,         \* whether the scratch directory exists
    cache,          \* the files in the scratch directory
    fetches,        \* per remote URL, the requests.get calls that returned its bytes
    lastErr,        \* the exception the latest step raised, "" if none
    fluffBody,      \* the body remove_fluff is applied to
    fluffPrev,      \* the body before the latest application
    fluffApplied    \* how often remove_fluff has been applied

bookVars == <<book, epubFile, writes, lastCall, calls, added>>
runVars == <<pc, indexHtml, tocEntries, chapters_metadata, chapterIdx, body, imgs,
             imgIdx, tmpDir, cache, fetches, lastErr>>
fluffVars == <<fluffBody, fluffPrev, fluffApplied>>

vars == <<bookVars, runVars, fluffVars>>

\* the parts of the state a specification does not use
BookIdle ==
    /\ book = NewBook(<<"Meaningness">>)
    /\ epubFile = << >>
    /\ writes = 0
    /\ lastCall = ""
    /\ calls = 0
    /\ added = << >>

NoBody == [p \in {<< >>} |-> EmptyElement]

RunIdle ==
    /\ pc = "idle"
    /\ indexHtml = << >>
    /\ tocEntries = << >>
    /\ chapters_metadata = << >>
    /\ chapterIdx = 1
    /\ body = NoBody
    /\ imgs = << >>
    /\ imgIdx = 1
    /\ tmpDir = FALSE
    /\ cache = {}
    /\ fetches = [u \in RemoteUrls |-> 0]
    /\ lastErr = ""

FluffIdle ==
    /\ fluffBody = [p \in {<< >>} |-> BodyElement]
    /\ fluffPrev = fluffBody
    /\ fluffApplied = 0

\* ------------------------------------------------- a run of put_ebook_together
\* Any index.html over the articles, and any scratch directory an earlier
\* run can have left: none, or one holding some of the images cached so far.
Init ==
    /\ pc = "start"
    /\ \E kind \in IndexKinds, hrefs \in SeqsUpTo(Hrefs, MaxToc) :
          /\ indexHtml = IF kind = "absent" THEN << >> ELSE <<IndexDoc(kind, hrefs)>>
          /\ tocEntries = IF kind \in {"absent", "nocontainer"} THEN << >> ELSE hrefs
    /\ chapters_metadata = << >>
    /\ chapterIdx = 1
    /\ body = NoBody
    /\ imgs = << >>
    /\ imgIdx = 1
    /\ tmpDir \in BOOLEAN
    /\ cache \in SUBSET {CacheFileName(TmpName, RemoteUrl)}
    /\ (~tmpDir => cache = {})
    /\ fetches = [u \in RemoteUrls |-> 0]
    /\ lastErr = ""
    /\ BookIdle
    /\ FluffIdle

\* an exception nothing catches ends the run
Abort(err) ==
    /\ pc' = "aborted"
    /\ lastErr' = err

\* put_ebook_together up to parse_toc: the scratch directory is made if it is
\* not there, MeaningnessEbook.__init__ makes the BookGenerator
PutEbookTogether ==
    /\ pc = "start"
    /\ tmpDir' = TRUE
    /\ book' = NewBook(<<"Meaningness">>)
    /\ pc' = "parse_toc"
    /\ lastErr' = ""
    /\ UNCHANGED <<epubFile, writes, lastCall, calls, added, indexHtml, tocEntries,
                   chapters_metadata, chapterIdx, body, imgs, imgIdx, cache, fetches,
                   fluffVars>>

\* self.chapters_metadata = list(self.parse_toc(html_root))
ParseToc ==
    /\ pc = "parse_toc"
    /\ LET r == parse_toc(indexHtml)
       IN  IF r.err # ""
           THEN Abort(r.err) /\ UNCHANGED chapters_metadata
           ELSE /\ chapters_metadata' = r.entries
                /\ pc' = IF r.entries = << >> THEN "generate" ELSE "convert"
                /\ lastErr' = ""
    /\ UNCHANGED <<bookVars, indexHtml, tocEntries, chapterIdx, body, imgs, imgIdx,
                   tmpDir, cache, fetches, fluffVars>>

\* convert_chapter up to the loop of _inline_images: the directory test, the
\* reading of the article, its title and body, remove_fluff, body.find("img")
ConvertChapter ==
    /\ pc = "convert"
    /\ LET article_path == chapters_metadata[chapterIdx][1]
           err == convert_chapter_error(article_path)
       IN  IF err # ""
           THEN Abort(err) /\ UNCHANGED <<body, imgs, imgIdx>>
           ELSE /\ body' = remove_fluff(ArticleAt(article_path).body)
                /\ imgs' = Find(body', TagSel("img"))
                /\ imgIdx' = 1
                /\ pc' = "images"
                /\ lastErr' = ""
    /\ UNCHANGED <<bookVars, indexHtml, tocEntries, chapters_metadata, chapterIdx,
                   tmpDir, cache, fetches, fluffVars>>

\* one turn of the loop of _inline_images, for the img at imgs[imgIdx]
InlineImage ==
    /\ pc = "images"
    /\ imgIdx <= Len(imgs)
    /\ LET p == imgs[imgIdx]
           params == body[p].params
       IN  IF ~HasParam(body[p], "src")
           THEN Abort("KeyError") /\ UNCHANGED <<book, lastCall, body, imgIdx, cache, fetches>>
           ELSE LET src == StrippedSrc(params.src)
                IN  \E netOk \in BOOLEAN :
                      LET r == IF IsRemote(src)
                               THEN _inline_remote_image(TmpName, src, cache, netOk)
                               ELSE _inline_local_image(params, src)
                          after == IF IsRemote(src) THEN params ELSE r.params
                      IN  /\ cache' = IF IsRemote(src) THEN r.cache ELSE cache
                          /\ fetches' = IF IsRemote(src) /\ r.fetched
                                        THEN [fetches EXCEPT ![src] = @ + 1]
                                        ELSE fetches
                          /\ imgIdx' = imgIdx + 1
                          /\ pc' = "images"
                          /\ lastErr' = r.err
                          /\ IF IsIOError(r.err)
                             THEN /\ UNCHANGED <<book, lastCall>>
                                  /\ body' = [body EXCEPT ![p].params = after]
                             ELSE /\ book' = add_image(book, r.image)
                                  /\ lastCall' = "add_image"
                                  /\ body' = [body EXCEPT ![p].params =
                                                 [after EXCEPT !.src = r.image.file_name]]
    /\ UNCHANGED <<epubFile, writes, calls, added, indexHtml, tocEntries,
                   chapters_metadata, chapterIdx, imgs, tmpDir, fluffVars>>

\* the end of convert_chapter, and the loop of __init__ moving on
RegisterChapter ==
    /\ pc = "images"
    /\ imgIdx > Len(imgs)
    /\ LET chapter == Chapter(chapters_metadata[chapterIdx][2], body)
       IN  /\ book' = add_chapter(book, chapter)
           /\ added' = Append(added, chapter)
    /\ lastCall' = "add_chapter"
    /\ chapterIdx' = chapterIdx + 1
    /\ pc' = IF chapterIdx + 1 > Len(chapters_metadata) THEN "generate" ELSE "convert"
    /\ lastErr' = ""
    /\ UNCHANGED <<epubFile, writes, calls, indexHtml, tocEntries, chapters_metadata,
                   body, imgs, imgIdx, tmpDir, cache, fetches, fluffVars>>

\* a bug: the failure of a conversion is swallowed and the book written anyway
GenerateEbook_after_failure ==
    /\ pc \in {"generate", "aborted"}
    /\ book' = generate_ebook(book)
    /\ epubFile' = <<Package(book')>>
    /\ writes' = writes + 1
    /\ lastCall' = "generate_ebook"
    /\ pc' = "done"
    /\ lastErr' = ""
    /\ UNCHANGED <<calls, added, indexHtml, tocEntries, chapters_metadata, chapterIdx,
                   body, imgs, imgIdx, tmpDir, cache, fetches, fluffVars>>

\* book.generate_ebook('meaningness.epub'), the last statement of the run
GenerateEbook ==
    /\ pc = "generate"
    /\ book' = generate_ebook(book)
    /\ epubFile' = <<Package(book')>>
    /\ writes' = writes + 1
    /\ lastCall' = "generate_ebook"
    /\ pc' = "done"
    /\ lastErr' = ""
    /\ UNCHANGED <<calls, added, indexHtml, tocEntries, chapters_metadata, chapterIdx,
                   body, imgs, imgIdx, tmpDir, cache, fetches, fluffVars>>

Next ==
    \/ PutEbookTogether
    \/ ParseToc
    \/ ConvertChapter
    \/ InlineImage
    \/ RegisterChapter
    \/ GenerateEbook

Spec == Init /\ [][Next]_vars

\* the img the loop of _inline_images is at, and its src once "../" is gone
AtImg == pc = "images" /\ imgIdx <= Len(imgs) /\ HasParam(body[imgs[imgIdx]], "src")
CurrentSrc == StrippedSrc(body[imgs[imgIdx]].params.src)

ImagesNamed(file_name) ==
    {k \in 1..Len(book.items) :
        book.items[k].kind = "image" /\ book.items[k].file_name = file_name}

\* C1 as claimed: whatever the scratch directory held at the start, no remote
\* URL is fetched more than once in a run (a fetch that failed not counted).
AtMostOneFetchPerUrl == \A u \in RemoteUrls : fetches[u] <= 1

\* C2 as claimed: when the first article has been converted and two of its
\* img elements were rewritten to the cache file of one remote URL, that file
\* is in the scratch directory and exactly one Image of that name is
\* registered with the book.
OneImagePerRemoteUrl ==
    (lastCall = "add_chapter" /\ Len(book.chapters) = 1) =>
        LET content == book.chapters[1].content
        IN  \A p, q \in DOMAIN content :
              (/\ p # q
               /\ content[p].tag = "img" /\ content[q].tag = "img"
               /\ HasParam(content[p], "src") /\ HasParam(content[q], "src")
               /\ content[p].params.src = content[q].params.src
               /\ StartsWith(content[p].params.src, TmpName[1]))
              => /\ content[p].params.src \in cache
                 /\ Cardinality(ImagesNamed(content[p].params.src)) = 1

\* C3 as claimed: a step of the run that raises anything but the IOError of a
\* missing local image ends the run.
OnlyMissingLocalImageCaught ==
    [][lastErr' \notin {"", "IOError"} => pc' = "aborted"]_vars

\* C5: the turn of the loop that meets a local image whose file is absent
\* neither ends the conversion nor changes anything: the loop moves on to the
\* next img, the element keeps its src and style, no Image is registered;
\* and no run ever ends on the IOError of a missing local image, so the
\* chapter is registered once the loop is through.
MissingLocalImageSkipped ==
    /\ [][(/\ AtImg
           /\ ~IsRemote(CurrentSrc)
           /\ PathJoin(HtmlRoot, CurrentSrc) \notin LocalFiles)
          => /\ pc' = "images"
             /\ imgIdx' = imgIdx + 1
             /\ imgs' = imgs
             /\ body' = body
             /\ book' = book
             /\ lastErr' = "IOError"]_vars
    /\ [][pc' = "aborted" => lastErr' # "IOError"]_vars

\* a chapter is registered in which the img of the missing file still has its
\* src and style, while a later img of it was inlined
MissingLocalImageWitness ==
    \E i \in 1..Len(book.chapters) :
        LET content == book.chapters[i].content
        IN  \E p, q \in DOMAIN content :
              /\ PathLess(p, q)
              /\ content[p] = StyledImg(MissingSrc)
              /\ content[q] = Img(AfterLast(LocalSrc, "/"))
              /\ ImagesNamed(AfterLast(MissingSrc, "/")) = {}
              /\ ImagesNamed(AfterLast(LocalSrc, "/")) # {}

\* C6: the chapters registered are at every moment the chapters of the first
\* TOC entries, in TOC order, and of all of them when the run has succeeded.
ChaptersFollowToc ==
    /\ Len(book.chapters) <= Len(tocEntries)
    /\ \A i \in 1..Len(book.chapters) :
          /\ book.chapters[i].file_name = tocEntries[i]
          /\ ArticleAt(tocEntries[i]).kind = "file"
          /\ DOMAIN book.chapters[i].content \subseteq DOMAIN ArticleAt(tocEntries[i]).body
    /\ (pc = "done" => Len(book.chapters) = Len(tocEntries))

\* a run over a page with links outside the TOC container has succeeded with
\* two different chapters
ChaptersFollowTocWitness ==
    /\ pc = "done"
    /\ Len(book.chapters) = 2
    /\ book.chapters[1].file_name # book.chapters[2].file_name
    /\ indexHtml # << >>
    /\ <<3, 1>> \in DOMAIN indexHtml[1]

\* C8: the package is written at most once, and only by a run that has
\* converted every TOC entry; a run that an error ended has written nothing.
PackageWrittenOnlyAtEnd ==
    /\ writes <= 1
    /\ (writes = 1 =>
          /\ pc = "done"
          /\ epubFile # << >>
          /\ Len(book.chapters) = Len(chapters_metadata)
          /\ Len(book.chapters) = Len(tocEntries))
    /\ (pc # "done" => writes = 0 /\ epubFile = << >>)

\* a run failed after it had registered a chapter and cached an image: the
\* scratch directory is populated, there is no package
PackageWrittenOnlyAtEndWitness ==
    /\ pc = "aborted"
    /\ Len(book.chapters) >= 1
    /\ fetches[RemoteUrl] = 1
    /\ cache # {}
    /\ epubFile = << >>

\* C9: convert_chapter on a directory raises at once (ValueError) and has
\* done nothing by then: the book, its chapter list, the scratch directory
\* and the fetches made are as before the call.
DirectoryRejected ==
    [][(pc = "convert" /\ ArticleAt(chapters_metadata[chapterIdx][1]).kind = "dir")
          => /\ pc' = "aborted"
             /\ lastErr' = "ValueError"
             /\ book' = book
             /\ added' = added
             /\ cache' = cache
             /\ fetches' = fetches]_vars

\* the run ended on the directory named by the second TOC entry, the chapter
\* of the first one registered
DirectoryRejectedWitness ==
    /\ pc = "aborted"
    /\ lastErr = "ValueError"
    /\ Len(book.chapters) = 1
    /\ chapterIdx = 2
    /\ ArticleAt(chapters_metadata[2][1]).kind = "dir"

\* -------------------------------------------- BookGenerator under any client
ClientChapters == {
    Chapter(<<"a", ".", "html">>, [p \in {<< >>} |-> BodyElement]),
    Chapter(<<"b", ".", "html">>, [p \in {<< >>} |-> BodyElement]) }

ClientImages == {
    Image(<<"x", ".", "png">>, <<"root", "/", "img", "/", "x", ".", "png">>),
    Image(<<"tmp_images", "/", "d1", ".", "png">>, << >>) }

BookInit == BookIdle /\ RunIdle /\ FluffIdle

CallAddChapter ==
    /\ calls < MaxCalls
    /\ \E c \in ClientChapters :
          /\ book' = add_chapter(book, c)
          /\ added' = Append(added, c)
    /\ lastCall' = "add_chapter"
    /\ calls' = calls + 1
    /\ UNCHANGED <<epubFile, writes, runVars, fluffVars>>

CallAddImage ==
    /\ calls < MaxCalls
    /\ \E i \in ClientImages : book' = add_image(book, i)
    /\ lastCall' = "add_image"
    /\ calls' = calls + 1
    /\ UNCHANGED <<epubFile, writes, added, runVars, fluffVars>>

CallGenerateEbook ==
    /\ calls < MaxCalls
    /\ calls' = calls + 1
    /\ book' = generate_ebook(book)
    /\ epubFile' = <<Package(book')>>
    /\ writes' = writes + 1
    /\ lastCall' = "generate_ebook"
    /\ UNCHANGED <<added, runVars, fluffVars>>

BookNext == CallAddChapter \/ CallAddImage \/ CallGenerateEbook

SpecBook == BookInit /\ [][BookNext]_vars

\* C4 as claimed: once generate_ebook has run, a call of add_chapter or
\* add_image leaves the chapter list and the items as they were.
NoAdditionAfterFinalization ==
    [][(writes > 0 /\ lastCall' \in {"add_chapter", "add_image"}) =>
          (book'.chapters = book.chapters /\ book'.items = book.items)]_vars

\* C4 as amended: BookGenerator has no finalized state.  After
\* generate_ebook, add_chapter still appends the chapter to the chapter list
\* and the items and add_image still appends the image to the items; what
\* stays as it was is the spine and the package already written.
AdditionAfterFinalizationAppends ==
    [][(writes > 0 /\ lastCall' \in {"add_chapter", "add_image"}) =>
          /\ Len(book'.items) = Len(book.items) + 1
          /\ book'.items[Len(book'.items)].kind =
                 (IF lastCall' = "add_chapter" THEN "chapter" ELSE "image")
          /\ book'.chapters =
                 (IF lastCall' = "add_chapter"
                  THEN Append(book.chapters, added'[Len(added')])
                  ELSE book.chapters)
          /\ book'.spine = book.spine
          /\ epubFile' = epubFile]_vars

\* a chapter was added after the package was written: the chapter list is
\* longer than the written spine accounts for
AdditionAfterFinalizationWitness ==
    /\ writes > 0
    /\ lastCall = "add_chapter"
    /\ Len(book.chapters) > Len(book.spine) - 1
    /\ Len(epubFile[1].spine) = Len(book.spine)

\* C7: right after every generate_ebook, the second one included, the spine
\* is the navigation document followed by the chapters added so far, each
\* once and in the order of the add_chapter calls, and the table of contents
\* is one section, titled as the book, that lists the same chapters.
SpineAndTocAfterFinalization ==
    lastCall = "generate_ebook" =>
        /\ book.spine = <<NavRef>> \o added
        /\ epubFile = <<Package(book)>>
        /\ Len(book.toc) = 1
        /\ book.toc[1].section = book.title
        /\ TocChapters(book, 1) = added

\* generate_ebook has just run for the second time, with a chapter added
\* before the first run and another one between the two
SpineAndTocWitness ==
    /\ lastCall = "generate_ebook"
    /\ writes = 2
    /\ Len(added) = 2
    /\ added[1] # added[2]
    /\ Len(book.items) = 8

\* --------------------------------------- remove_fluff applied to any body
FluffInit ==
    /\ \E shape \in BodyShapes : \E lab \in [shape \ {<< >>} -> FluffElements] :
          fluffBody = [p \in shape |-> IF p = << >> THEN BodyElement ELSE lab[p]]
    /\ fluffPrev = fluffBody
    /\ fluffApplied = 0
    /\ BookIdle
    /\ RunIdle

ApplyRemoveFluff ==
    /\ fluffApplied < MaxApply
    /\ fluffPrev' = fluffBody
    /\ fluffBody' = remove_fluff(fluffBody)
    /\ fluffApplied' = fluffApplied + 1
    /\ UNCHANGED <<bookVars, runVars>>

FluffNext == ApplyRemoveFluff

SpecFluff == FluffInit /\ [][FluffNext]_vars

\* C10: remove_fluff is idempotent: a second application leaves the body the
\* first one produced as it is, removing nothing.
RemoveFluffIdempotent ==
    fluffApplied >= 2 =>
        /\ fluffBody = fluffPrev
        /\ DOMAIN fluffBody = DOMAIN fluffPrev

\* a body with a nested removable element has been cleaned twice, and the
\* first cleaning did remove something
RemoveFluffIdempotentWitness ==
    /\ fluffApplied = 2
    /\ \E p \in DOMAIN fluffBody : fluffBody[p] = EmptyElement
    /\ \E p \in DOMAIN fluffBody : fluffBody[p].tag = "img"
====
